---------------------------- MODULE Spec2Model ----------------------------
(***************************************************************************)
(* ODeals back end: the Express route handlers of server/routes.ts over     *)
(* the two IStorage implementations (server/storage.ts MemStorage and       *)
(* server/databaseStorage.ts DatabaseStorage) and the OTP helper of         *)
(* server/util/otp.ts.                                                       *)
(*                                                                           *)
(* Wiring, as in the source:                                                 *)
(*   - routes.ts:3 imports `storage` from ./databaseStorage;                 *)
(*   - util/otp.ts:1 imports `storage` from ../storage, the MemStorage       *)
(*     instance exported at storage.ts:758.                                  *)
(* The variable impl names the IStorage implementation behind the routes'   *)
(* `storage` ("db" is the repository as wired, "mem" is MemStorage bound to *)
(* the same routes); OTPs always live in the MemStorage map.                *)
(*                                                                           *)
(* A table is the sequence of its rows in insertion order, a row's id being *)
(* its serial number.  The rewards table is kept as the multiset of its     *)
(* rows without the id and createdAt columns.  Time is counted in minutes.  *)
(*                                                                           *)
(* verified is a history variable, no state of the program: the (client,    *)
(* phone) pairs for which a verify-otp request of the client has succeeded. *)
(***************************************************************************)
EXTENDS Integers, Sequences, FiniteSets, Bags, TLC

\* ------------------------------------------------------------------ bounds
MaxUsers == 3
MaxDeals == 4
MaxAccessDeals == 1
MaxAccessCompletions == 1
MaxVisits == 1
MaxReviews == 2
MaxRewards == 6
MaxRedemptions == 1
MaxTime == 15
MaxInflight == 2
MaxCompletions == 5
MaxChain == 52
MaxViews == 2
MaxReferrals == 1

\* ------------------------------------------------------ program constants
OtpTtl == 10
MinRedemption == 500
MaxRedemption == 5000
MaxActiveDealsPerCategory == 3
VisitPoints == 100
ReviewPoints == 100
ReferralPoints == 1000
MinutesPerDay == 1440
RegistrationBonus == 500

\* --------------------------------------------------------- input alphabets
Clients == {"a", "b"}
Phones == {"9000000001", "9000000002"}
AccessPhones == {"9000000001", "9000000003"}
AccessCategories == {"Food"}
AccessPatches == {[isActive |-> FALSE]}
BadPhone == "12345"
OtpCodes == {"123456", "654321"}
OtpInputs == OtpCodes \cup {"000000", "12"}
Categories == {"Food", "Jewellery"}
DealName == "Pizza Offer"
DealDescription == "Fresh pizza daily"
DealFilters ==
  {[category |-> cat, query |-> "none"] : cat \in Categories}
    \cup {[category |-> "none", query |-> q] : q \in {"pizza", "sushi", "none"}}
PointsInputs == {499, 500, 5000, 5001}
RedemptionCodes == {"V1StGX", "Q9ZK2M"}
StoreIds == 1..MaxUsers
NoUser == 0
None == "none"
TickSteps == {5}
OtpClients == {"a"}
ConsumerClient == "a"
PartnerClient == "b"
ConsumerPhone == "9000000001"
PartnerPhone == "9000000002"
Null == "NULL"
RedeemBodies ==
  {[points |-> p, code |-> Null, status |-> Null] : p \in PointsInputs}
    \cup {[points |-> MinRedemption, code |-> "FORGED", status |-> "completed"]}
Ratings == {5}
RatingInputs == {0, 1, 5, 6}
VisitBody(partnerId) == [partnerId |-> partnerId]
ForgedVisitBody(partnerId) ==
  [partnerId |-> partnerId, status |-> "completed", markedAsVisited |-> TRUE]
ReviewBody(partnerId, rating) == [partnerId |-> partnerId, rating |-> rating]
ReferralBody(phone) == [referredPhone |-> phone]
ForgedReferralBody(phone) == [referredPhone |-> phone, status |-> "completed"]
ReferralStatuses == {"completed", "expired"}
OtherVisitBody(partnerId, userId) == [partnerId |-> partnerId, userId |-> userId]
OtherReviewBody(partnerId, rating, userId) ==
  [partnerId |-> partnerId, rating |-> rating, userId |-> userId]
OtherRedeemBody(userId) ==
  [points |-> MinRedemption, code |-> Null, status |-> Null, userId |-> userId]
OtherReferralBody(phone, userId) ==
  [referredPhone |-> phone, referrerId |-> userId]
OtherDealBody(category, partnerId) ==
  [category |-> category, partnerId |-> partnerId]
ForgedReviewBody(partnerId, rating) ==
  [partnerId |-> partnerId, rating |-> rating, isPublished |-> TRUE]
UserTypes == {"consumer", "partner"}
ProfilePatches ==
  {[phone |-> p] : p \in Phones}
    \cup {[userType |-> "partner"], [isVerified |-> TRUE]}
DealClients == {"a"}
DealPhones == {"9000000001"}
DealPatches ==
  {[category |-> cat] : cat \in Categories}
    \cup {[isActive |-> b] : b \in BOOLEAN}

VARIABLES impl, now, users, partnerStores, deals, visits, reviews, rewards,
          redemptions, referrals, otps, partnerStats, session, inflight, last,
          verified

vars == <<impl, now, users, partnerStores, deals, visits, reviews, rewards,
          redemptions, referrals, otps, partnerStats, session, inflight, last,
          verified>>

tables == <<users, partnerStores, deals, visits, reviews, rewards,
            redemptions, referrals, partnerStats>>

\* ----------------------------------------------------------------- helpers
NoSession == [userId |-> NoUser, userType |-> None]
NoOtp == [phone |-> None, otp |-> None, expiresAt |-> 0]

\* The answer to the last answered request: its route and client, the HTTP
\* status (0: none yet) and what the request carried (a phone, a text, numbers).
Response(route, client, status, phone, text, num, aux) ==
  [route |-> route, client |-> client, status |-> status, phone |-> phone,
   text |-> text, num |-> num, aux |-> aux]

Rows(table) == {table[i] : i \in 1..Len(table)}

\* { ...row, ...data }: the columns named in data replace those of row.
Merge(row, data) ==
  [k \in DOMAIN row |-> IF k \in DOMAIN data THEN data[k] ELSE row[k]]

RECURSIVE SumPoints(_)
SumPoints(b) ==
  IF DOMAIN b = {} THEN 0
  ELSE LET r == CHOOSE x \in DOMAIN b : TRUE
       IN r.points * b[r] + SumPoints([x \in DOMAIN b \ {r} |-> b[x]])

\* ------------------------------------------------------------ user methods
getUserByPhone(phone) ==
  IF \E i \in 1..Len(users) : users[i].phone = phone
  THEN users[CHOOSE i \in 1..Len(users) : users[i].phone = phone
                /\ \A j \in 1..(i-1) : users[j].phone # phone]
  ELSE [id |-> NoUser, phone |-> None, userType |-> None, isVerified |-> FALSE]

createUser(phone, userType) ==
  Append(users, [id |-> Len(users) + 1, phone |-> phone,
                 userType |-> userType, isVerified |-> FALSE])

updateUser(id, data) ==
  [users EXCEPT ![id] = Merge(@, data)]

\* users.phone is UNIQUE in the database: no other row has the phone.
usersPhoneUnique(id, phone) ==
  \A i \in 1..Len(users) : users[i].phone = phone => i = id

\* --------------------------------------------------- partner store methods
NoStore == 0
NoDeal == 0

getPartnerStoreByUserId(userId) ==
  IF \E i \in 1..Len(partnerStores) : partnerStores[i].userId = userId
  THEN partnerStores[CHOOSE i \in 1..Len(partnerStores) :
                       /\ partnerStores[i].userId = userId
                       /\ \A j \in 1..(i-1) : partnerStores[j].userId # userId]
  ELSE [id |-> NoStore, userId |-> NoUser]

getPartnerStoreById(id) ==
  IF id \in 1..Len(partnerStores) THEN partnerStores[id]
  ELSE [id |-> NoStore, userId |-> NoUser]

createPartnerStore(userId) ==
  Append(partnerStores, [id |-> Len(partnerStores) + 1, userId |-> userId])

updatePartnerStore(id, storeData) ==
  [partnerStores EXCEPT ![id] = Merge(@, storeData)]

\* partner_stores.user_id REFERENCES users(id)
storeForeignKeys(store) == store.userId \in 1..Len(users)

\* today.setHours(0, 0, 0, 0): the day of the current time.
Today == now \div MinutesPerDay

\* ------------------------------------------------------------ deal methods
getDealById(id) ==
  IF id \in 1..Len(deals) THEN deals[id]
  ELSE [id |-> NoDeal, partnerId |-> NoStore, category |-> None,
        isActive |-> FALSE, name |-> None, description |-> None,
        startDate |-> 0, endDate |-> 0]

getDealsByPartnerId(partnerId) ==
  {d \in Rows(deals) : d.partnerId = partnerId}

\* isActive is not an insert column (insertDealSchema omits it): a deal is
\* created active.  The other columns are the request's: the requests sent
\* here name the deal DealName, describe it and make it valid today only
\* (dates are days).
createDeal(partnerId, category) ==
  Append(deals, [id |-> Len(deals) + 1, partnerId |-> partnerId,
                 category |-> category, isActive |-> TRUE,
                 name |-> DealName, description |-> DealDescription,
                 startDate |-> Today, endDate |-> Today])

updateDeal(id, dealData) ==
  [deals EXCEPT ![id] = Merge(@, dealData)]

deactivateDeal(id) ==
  [deals EXCEPT ![id] = Merge(@, [isActive |-> FALSE])]

\* text.toLowerCase().includes(query) and LOWER(text) LIKE %query%, on the
\* texts and queries used here.
Like(text, query) ==
  <<text, query>> \in {<<DealName, "pizza">>, <<DealDescription, "pizza">>}

\* startDate <= today <= endDate: DatabaseStorage compares the days,
\* MemStorage the instants new Date(startDate), new Date(endDate) and now.
inWindow(deal) ==
  IF impl = "mem"
  THEN deal.startDate * MinutesPerDay <= now /\ deal.endDate * MinutesPerDay >= now
  ELSE deal.startDate <= Today /\ deal.endDate >= Today

getActiveDeals == {d \in Rows(deals) : d.isActive /\ inWindow(d)}

\* MemStorage filters on the category and isActive; DatabaseStorage on
\* isActive, the window and the category.
getDealsByCategory(category) ==
  IF impl = "mem"
  THEN {d \in Rows(deals) : d.category = category /\ d.isActive}
  ELSE {d \in Rows(deals) : d.isActive /\ inWindow(d) /\ d.category = category}

\* MemStorage filters getActiveDeals() on the name or the description.
\* DatabaseStorage: and(isActive, start, end, sql`name LIKE q OR description
\* LIKE q`), the last operand put unparenthesised between the ANDs, so that
\* the WHERE clause reads (isActive AND start AND end AND name LIKE q) OR
\* description LIKE q.
searchDeals(query) ==
  IF impl = "mem"
  THEN {d \in getActiveDeals : Like(d.name, query) \/ Like(d.description, query)}
  ELSE {d \in Rows(deals) :
          \/ d.isActive /\ inWindow(d) /\ Like(d.name, query)
          \/ Like(d.description, query)}

\* routes.ts: the deals GET /api/consumer/deals returns for its category and
\* query parameters (None: the parameter is absent).
consumerDeals(category, query) ==
  IF category # None
  THEN IF category = "Food"
       THEN {d \in getActiveDeals :
               d.category \in {"cafe", "restaurant", "Food"}}
       ELSE getDealsByCategory(category)
  ELSE IF query # None THEN searchDeals(query)
  ELSE getActiveDeals

\* insertDealSchema.parse({...req.body, partnerId: store.id})
insertDealSchema(body, partnerId) ==
  [partnerId |-> partnerId, category |-> body.category]

\* deals.partner_id REFERENCES partner_stores(id)
dealForeignKeys(deal) ==
  deal.partnerId \in 1..Len(partnerStores)

\* routes.ts: the filter of POST /api/partner/deals on the store's deals.
activeDealsInCategory(existingDeals, category) ==
  {d \in existingDeals : d.isActive /\ d.category = category}

dealLimitReached_OffByOne(n) == n > MaxActiveDealsPerCategory

dealLimitReached(n) == n >= MaxActiveDealsPerCategory

\* --------------------------------------------------------------- middleware
requireAuth(c) == session[c].userId # NoUser
\* The ownership tests of the routes that answer 403.
ownsVisit_Any(visit, userId) == TRUE

ownsVisit(visit, userId) == visit.userId = userId

ownsDeal(deal, store) == deal.partnerId = store.id

storeOwnsVisit(visit, store) == visit.partnerId = store.id

requirePartnerAuth(c) ==
  session[c].userId # NoUser /\ session[c].userType = "partner"
requireConsumerAuth(c) ==
  session[c].userId # NoUser /\ session[c].userType = "consumer"

\* --------------------------------------------------- partner statistics
NoStat(partnerId, date) ==
  [partnerId |-> partnerId, date |-> date, storeViews |-> 0, dealViews |-> 0,
   scheduledVisits |-> 0, actualVisits |-> 0]

\* One row per (partnerId, date): the key of the MemStorage map, the
\* UNIQUE (partner_id, date) of the partner_stats table.
incrementStat(partnerId, column) ==
  IF \E r \in partnerStats : r.partnerId = partnerId /\ r.date = Today
  THEN {IF r.partnerId = partnerId /\ r.date = Today
        THEN [r EXCEPT ![column] = @ + 1] ELSE r : r \in partnerStats}
  ELSE partnerStats \cup {[NoStat(partnerId, Today) EXCEPT ![column] = 1]}

incrementScheduledVisits(partnerId) == incrementStat(partnerId, "scheduledVisits")
incrementActualVisits(partnerId) == incrementStat(partnerId, "actualVisits")
incrementStoreViews(partnerId) == incrementStat(partnerId, "storeViews")

getPartnerStatsByDate(partnerId, date) ==
  IF \E r \in partnerStats : r.partnerId = partnerId /\ r.date = date
  THEN CHOOSE r \in partnerStats : r.partnerId = partnerId /\ r.date = date
  ELSE NoStat(partnerId, date)

\* DatabaseStorage.createOrUpdatePartnerStats: the row of the store and day,
\* when there is one, has every column set from the argument; otherwise the
\* argument is inserted.
createOrUpdatePartnerStats(stats) ==
  {r \in partnerStats : r.partnerId # stats.partnerId \/ r.date # stats.date}
    \cup {stats}

\* DatabaseStorage.incrementStoreViews after its select returned existingStat
\* (found: whether a row was returned).
incrementStoreViews_Write(partnerId, found, existingStat) ==
  IF found
  THEN {IF r.partnerId = partnerId /\ r.date = Today
        THEN [r EXCEPT !.storeViews = existingStat.storeViews + 1]
        ELSE r : r \in partnerStats}
  ELSE createOrUpdatePartnerStats(
         [NoStat(partnerId, Today) EXCEPT !.storeViews = 1])

RECURSIVE SumStoreViews(_)
SumStoreViews(rows) ==
  IF rows = {} THEN 0
  ELSE LET r == CHOOSE x \in rows : TRUE
       IN r.storeViews + SumStoreViews(rows \ {r})

RECURSIVE SumActualVisits(_)
SumActualVisits(rows) ==
  IF rows = {} THEN 0
  ELSE LET r == CHOOSE x \in rows : TRUE
       IN r.actualVisits + SumActualVisits(rows \ {r})

\* ------------------------------------------------------------ reward methods
Reward(userId, points, reason, referenceId) ==
  [userId |-> userId, points |-> points, reason |-> reason,
   referenceId |-> referenceId]

createReward(table, reward) == table (+) SetToBag({reward})

getRewardsByUserId(userId) ==
  [r \in {x \in DOMAIN rewards : x.userId = userId} |-> rewards[r]]

getTotalRewardPointsByUserId_AllUsers(userId) == SumPoints(rewards)

\* MemStorage: rewards.reduce((total, reward) => total + reward.points, 0);
\* DatabaseStorage: COALESCE(SUM(points), 0) WHERE user_id = userId.
getTotalRewardPointsByUserId(userId) == SumPoints(getRewardsByUserId(userId))

\* ------------------------------------------------------------- visit methods
NoVisit == 0

getVisitById(id) ==
  IF id \in 1..Len(visits) THEN visits[id]
  ELSE [id |-> NoVisit, userId |-> NoUser, partnerId |-> NoStore,
        status |-> None, markedAsVisited |-> FALSE]

\* visits.partner_id REFERENCES partner_stores(id)
visitForeignKeys(partnerId) == partnerId \in 1..Len(partnerStores)

\* insertVisitSchema omits id, createdAt, markedAsVisited and status, and the
\* route sets userId from the session after spreading the body.
insertVisitSchema_KeepStatus(body, userId) ==
  [k \in DOMAIN body \cup {"userId"} |->
     IF k = "userId" THEN userId ELSE body[k]]

insertVisitSchema_BodyUserId(body, userId) ==
  [userId |-> IF "userId" \in DOMAIN body THEN body.userId ELSE userId,
   partnerId |-> body.partnerId]

insertVisitSchema(body, userId) ==
  [userId |-> userId, partnerId |-> body.partnerId]

\* The row either implementation writes for a parsed visit: MemStorage
\* spreads the input and then sets id, status and markedAsVisited;
\* DatabaseStorage inserts the input, the defaults 'scheduled' and false
\* filling the columns it lacks.
visitRow(visit) ==
  IF impl = "mem"
  THEN Merge([id |-> Len(visits) + 1, userId |-> NoUser,
              partnerId |-> NoStore, status |-> "scheduled",
              markedAsVisited |-> FALSE],
             [k \in DOMAIN visit \ {"status", "markedAsVisited"} |-> visit[k]])
  ELSE Merge([id |-> Len(visits) + 1, userId |-> NoUser,
              partnerId |-> NoStore, status |-> "scheduled",
              markedAsVisited |-> FALSE],
             visit)

createVisit(visit) == Append(visits, visitRow(visit))

completedVisits(id) ==
  [visits EXCEPT ![id] = Merge(@, [status |-> "completed",
                                    markedAsVisited |-> TRUE])]

\* The rewards table after storage.markVisitAsCompleted(id):
\* MemStorage rewards the visit's user, DatabaseStorage inserts no reward.
markVisitAsCompleted_RewardsOf(storage, id) ==
  IF storage = "mem"
  THEN createReward(rewards, Reward(visits[id].userId, VisitPoints,
                                    "Visited a partner store", id))
  ELSE rewards

markVisitAsCompleted_Rewards(id) == markVisitAsCompleted_RewardsOf(impl, id)

\* ------------------------------------------------------------ review methods
\* reviews.partner_id REFERENCES partner_stores(id)
reviewForeignKeys(partnerId) == partnerId \in 1..Len(partnerStores)

\* insertReviewSchema omits id, createdAt and isPublished; rating is the
\* integer column's schema, an integer of any value; the route sets userId
\* from the session after spreading the body.
insertReviewSchema_KeepPublished(body, userId) ==
  [k \in DOMAIN body \cup {"userId"} |->
     IF k = "userId" THEN userId ELSE body[k]]

insertReviewSchema(body, userId) ==
  [userId |-> userId, partnerId |-> body.partnerId, rating |-> body.rating]

\* The row either implementation writes for a parsed review: MemStorage
\* spreads the input and then sets id and isPublished: false;
\* DatabaseStorage inserts the input, the default false filling isPublished.
reviewRow(review) ==
  IF impl = "mem"
  THEN Merge([id |-> Len(reviews) + 1, userId |-> NoUser,
              partnerId |-> NoStore, rating |-> 0, isPublished |-> FALSE],
             [k \in DOMAIN review \ {"isPublished"} |-> review[k]])
  ELSE Merge([id |-> Len(reviews) + 1, userId |-> NoUser,
              partnerId |-> NoStore, rating |-> 0, isPublished |-> FALSE],
             review)

createReview(review) == Append(reviews, reviewRow(review))

publishReview(id) ==
  [reviews EXCEPT ![id] = Merge(@, [isPublished |-> TRUE])]

\* Both implementations: the published reviews of the store.
getReviewsByPartnerId(partnerId) ==
  {r \in Rows(reviews) : r.partnerId = partnerId /\ r.isPublished}

\* MemStorage.createReview rewards the author, DatabaseStorage does not.
createReview_RewardsOf(storage, userId) ==
  IF storage = "mem"
  THEN createReward(rewards, Reward(userId, ReviewPoints, "Wrote a review",
                                    Len(reviews) + 1))
  ELSE rewards

createReview_Rewards(userId) == createReview_RewardsOf(impl, userId)

\* -------------------------------------------------------- redemption methods
\* insertRedemptionSchema omits id, createdAt, code and status: the parsed
\* body carries neither, whatever the request sent.
insertRedemptionSchema(body, userId, partnerId) ==
  [userId |-> userId, partnerId |-> partnerId, points |-> body.points]

\* The row either implementation writes for a parsed redemption:
\* MemStorage spreads the input and then sets id, code (nanoid) and status;
\* DatabaseStorage inserts the input as it is, the table's defaults filling
\* the columns it lacks: status 'pending', and no default for code.
redemptionRowOf(storage, redemption, code) ==
  IF storage = "mem"
  THEN Merge([id |-> Len(redemptions) + 1, userId |-> NoUser,
              partnerId |-> NoStore, points |-> 0, code |-> code,
              status |-> "pending"],
             [k \in DOMAIN redemption \ {"code", "status"} |-> redemption[k]])
  ELSE Merge([id |-> Len(redemptions) + 1, userId |-> NoUser,
              partnerId |-> NoStore, points |-> 0, code |-> Null,
              status |-> "pending"],
             redemption)

redemptionRow(redemption, code) == redemptionRowOf(impl, redemption, code)

\* redemptions.code TEXT NOT NULL
redemptionNotNull(row) == row.code # Null

\* MemStorage.createRedemption subtracts the points with a reward row;
\* DatabaseStorage.createRedemption is the insert alone.
createRedemption_RewardsOf(storage, row) ==
  IF storage = "mem"
  THEN createReward(rewards, Reward(row.userId, 0 - row.points,
                                    "Redeemed points", row.id))
  ELSE rewards

createRedemption_Rewards(row) == createRedemption_RewardsOf(impl, row)

\* routes.ts: the three checks of POST /api/consumer/redeem, in their order.
redeemRejected_NoMaximum(totalPoints, points) ==
  totalPoints < points \/ points < MinRedemption

redeemRejected_NoBalanceTest(totalPoints, points) ==
  points < MinRedemption \/ points > MaxRedemption

redeemRejected(totalPoints, points) ==
  \/ totalPoints < points
  \/ points < MinRedemption
  \/ points > MaxRedemption

\* --------------------------------------------------------- referral methods
getUserById(id) ==
  IF id \in 1..Len(users) THEN users[id]
  ELSE [id |-> NoUser, phone |-> None, userType |-> None, isVerified |-> FALSE]

\* insertReferralSchema omits id, createdAt and status; the route sets
\* referrerId from the session after spreading the body.
insertReferralSchema(body, referrerId) ==
  [referrerId |-> referrerId, referredPhone |-> body.referredPhone]

\* MemStorage spreads the input and then sets id and status: 'pending';
\* DatabaseStorage inserts the input, the default 'pending' filling status.
referralRow(referral) ==
  IF impl = "mem"
  THEN Merge([id |-> Len(referrals) + 1, referrerId |-> NoUser,
              referredPhone |-> None, status |-> "pending"],
             [k \in DOMAIN referral \ {"status"} |-> referral[k]])
  ELSE Merge([id |-> Len(referrals) + 1, referrerId |-> NoUser,
              referredPhone |-> None, status |-> "pending"],
             referral)

createReferral(referral) == Append(referrals, referralRow(referral))

updateReferralStatus(id, status) ==
  [referrals EXCEPT ![id] = Merge(@, [status |-> status])]

\* The rewards table after storage.updateReferralStatus(id, status):
\* MemStorage rewards the referrer and the user of the referred phone when
\* the status is 'completed' and both exist; DatabaseStorage is the update
\* alone.
updateReferralStatus_RewardsOf(storage, id, status) ==
  LET referrer == getUserById(referrals[id].referrerId)
      referred == getUserByPhone(referrals[id].referredPhone)
  IN
  IF storage = "mem" /\ status = "completed"
       /\ referrer.id # NoUser /\ referred.id # NoUser
  THEN createReward(
         createReward(rewards, Reward(referrer.id, ReferralPoints,
                                      "Successful referral", id)),
         Reward(referred.id, ReferralPoints, "Joined through referral", id))
  ELSE rewards

updateReferralStatus_Rewards(id, status) ==
  updateReferralStatus_RewardsOf(impl, id, status)

\* ------------------------------------------------------------- OTP methods
\* MemStorage.otps is a Map keyed by phone: set() replaces the entry of the key.
createOtp_Insert(otp) ==
  otps \cup {otp}

createOtp(otp) ==
  {r \in otps : r.phone # otp.phone} \cup {otp}

getOtpByPhone(phone) ==
  IF \E r \in otps : r.phone = phone
  THEN CHOOSE r \in otps : r.phone = phone
  ELSE NoOtp

\* util/otp.ts generateAndSendOTP: the code is the random draw.
generateAndSendOTP(phone, otp) ==
  createOtp([phone |-> phone, otp |-> otp, expiresAt |-> now + OtpTtl])

verifyOtp_NoExpiry(phone, otpValue) ==
  LET otp == getOtpByPhone(phone) IN
  IF otp = NoOtp THEN FALSE
  ELSE otp.otp = otpValue

verifyOtp_StrictExpiry(phone, otpValue) ==
  LET otp == getOtpByPhone(phone) IN
  IF otp = NoOtp THEN FALSE
  ELSE IF otp.expiresAt <= now THEN FALSE
  ELSE otp.otp = otpValue

\* MemStorage.verifyOtp, the one util/otp.ts calls.
verifyOtp(phone, otpValue) ==
  LET otp == getOtpByPhone(phone) IN
  IF otp = NoOtp THEN FALSE
  ELSE IF otp.expiresAt < now THEN FALSE
  ELSE otp.otp = otpValue

phoneSchema(phone) == phone \in Phones
otpVerificationSchema(phone, otp) == phone \in Phones /\ otp # "12"

\* -------------------------------------------------------------- Init
Init ==
  /\ impl \in {"db", "mem"}
  /\ now = 0
  /\ users = <<>>
  /\ partnerStores = <<>>
  /\ deals = <<>>
  /\ visits = <<>>
  /\ reviews = <<>>
  /\ rewards = EmptyBag
  /\ redemptions = <<>>
  /\ otps = {}
  /\ partnerStats = {}
  /\ session = [c \in Clients |-> NoSession]
  /\ referrals = <<>>
  /\ inflight = EmptyBag
  /\ last = Response("none", "a", 0, None, None, 0, 0)
  /\ verified = {}

\* ------------------------------------------------------------- auth routes
\* POST /api/auth/send-otp
SendOtp(c, phone, otp) ==
  /\ IF ~phoneSchema(phone)
     THEN /\ last' = Response("send-otp", c, 400, phone, None, 0, 0)
          /\ UNCHANGED otps
     ELSE /\ otps' = generateAndSendOTP(phone, otp)
          /\ last' = Response("send-otp", c, 200, phone, otp,
                              IF \E o \in OtpCodes \ {otp} : verifyOtp(phone, o)
                              THEN 1 ELSE 0, 0)
  /\ UNCHANGED <<impl, now, tables, session, inflight, verified>>

\* POST /api/auth/verify-otp
VerifyOtp(c, phone, otp) ==
  /\ IF ~otpVerificationSchema(phone, otp) \/ ~verifyOtp(phone, otp)
     THEN /\ last' = Response("verify-otp", c, 400, phone, otp, 0, 0)
          /\ UNCHANGED <<users, session>>
     ELSE LET user == getUserByPhone(phone) IN
          IF user.id = NoUser
          THEN /\ last' = Response("verify-otp", c, 200, phone, otp, NoUser, 1)
               /\ UNCHANGED <<users, session>>
          ELSE /\ users' = IF ~user.isVerified
                           THEN updateUser(user.id, [isVerified |-> TRUE])
                           ELSE users
               /\ session' = [session EXCEPT ![c] =
                                [userId |-> user.id, userType |-> user.userType]]
               /\ last' = Response("verify-otp", c, 200, phone, otp, user.id, 0)
  /\ verified' = IF otpVerificationSchema(phone, otp) /\ verifyOtp(phone, otp)
                 THEN verified \cup {<<c, phone>>} ELSE verified
  /\ UNCHANGED <<impl, now, partnerStores, deals, visits, reviews, rewards,
                 redemptions, referrals, otps, partnerStats, inflight>>

\* POST /api/auth/register/consumer
RegisterConsumer(c, phone) ==
  /\ Len(users) < MaxUsers
  /\ IF getUserByPhone(phone).id # NoUser
     THEN /\ last' = Response("register-consumer", c, 400, phone, None, 0, 0)
          /\ UNCHANGED <<users, session>>
     ELSE /\ users' = createUser(phone, "consumer")
          /\ session' = [session EXCEPT ![c] =
                           [userId |-> Len(users) + 1, userType |-> "consumer"]]
          /\ last' = Response("register-consumer", c, 201, phone, None, Len(users) + 1, 0)
  /\ UNCHANGED <<impl, now, referrals, verified,
                 partnerStores, deals, visits, reviews, rewards,
                 redemptions, otps, partnerStats, inflight>>

\* POST /api/auth/register/partner
RegisterPartner(c, phone) ==
  /\ Len(users) < MaxUsers
  /\ IF getUserByPhone(phone).id # NoUser
     THEN /\ last' = Response("register-partner", c, 400, phone, None, 0, 0)
          /\ UNCHANGED <<users, partnerStores, session>>
     ELSE /\ users' = createUser(phone, "partner")
          /\ partnerStores' = createPartnerStore(Len(users) + 1)
          /\ session' = [session EXCEPT ![c] =
                           [userId |-> Len(users) + 1, userType |-> "partner"]]
          /\ last' = Response("register-partner", c, 201, phone, None,
                              Len(users) + 1, Len(partnerStores) + 1)
  /\ UNCHANGED <<impl, now, referrals, verified,
                 deals, visits, reviews, rewards,
                 redemptions, otps, partnerStats, inflight>>

\* The register routes under DatabaseStorage, the requests of two clients
\* interleaving: first the getUserByPhone test of the handler ...
RegisterRead(c, phone, userType) ==
  /\ impl = "db"
  /\ BagCardinality(inflight) < MaxInflight
  /\ IF getUserByPhone(phone).id # NoUser
     THEN /\ last' = Response("register-" \o userType, c, 400, phone, None, 0, 0)
          /\ UNCHANGED inflight
     ELSE /\ inflight' = inflight (+) SetToBag({
                 [route |-> "register-" \o userType, client |-> c, id |-> 0,
                  text |-> phone]})
          /\ UNCHANGED last
  /\ UNCHANGED <<impl, now, tables, otps, session, verified>>

\* ... then its inserts, the session and the answer; the insert into users
\* throws when the phone has been stored meanwhile, and the catch answers 500.
RegisterWrite(req) ==
  LET userType == IF req.route = "register-partner" THEN "partner"
                  ELSE "consumer"
  IN
  /\ BagIn(req, inflight)
  /\ req.route \in {"register-consumer", "register-partner"}
  /\ Len(users) < MaxUsers
  /\ inflight' = inflight (-) SetToBag({req})
  /\ IF ~usersPhoneUnique(NoUser, req.text)
     THEN /\ last' = Response(req.route, req.client, 500, req.text, None, 0, 0)
          /\ UNCHANGED <<users, partnerStores, session>>
     ELSE /\ users' = createUser(req.text, userType)
          /\ partnerStores' = IF userType = "partner"
                              THEN createPartnerStore(Len(users) + 1)
                              ELSE partnerStores
          /\ session' = [session EXCEPT ![req.client] =
                           [userId |-> Len(users) + 1, userType |-> userType]]
          /\ last' = Response(req.route, req.client, 201, req.text, None,
                              Len(users) + 1, 0)
  /\ UNCHANGED <<impl, now, referrals, verified,
                 deals, visits, reviews, rewards,
                 redemptions, otps, partnerStats>>

\* POST /api/auth/register/partner when the insert of createPartnerStore
\* throws after createUser has returned (the database refuses or loses the
\* statement): the handler's catch answers 500; the two inserts share no
\* transaction and the handler undoes nothing.
RegisterPartnerStoreInsertFails(c, phone) ==
  /\ Len(users) < MaxUsers
  /\ impl = "db"
  /\ getUserByPhone(phone).id = NoUser
  /\ users' = createUser(phone, "partner")
  /\ last' = Response("register-partner", c, 500, phone, None, 0, 0)
  /\ UNCHANGED <<impl, now, referrals, verified,
                 partnerStores, deals, visits, reviews, rewards,
                 redemptions, otps, partnerStats, session, inflight>>

\* ------------------------------------------------------------ partner routes
\* PATCH /api/partner/store
UpdateStore(c, body) ==
  LET store == getPartnerStoreByUserId(session[c].userId) IN
  /\ IF ~requirePartnerAuth(c)
     THEN /\ last' = Response("update-store", c, 401, None, None, 0, 0)
          /\ UNCHANGED partnerStores
     ELSE IF store.id = NoStore
     THEN /\ last' = Response("update-store", c, 404, None, None, 0, 0)
          /\ UNCHANGED partnerStores
     ELSE IF impl = "db" /\ ~storeForeignKeys(Merge(store, body))
     THEN /\ last' = Response("update-store", c, 500, None, None, store.id, 0)
          /\ UNCHANGED partnerStores
     ELSE /\ partnerStores' = updatePartnerStore(store.id, body)
          /\ last' = Response("update-store", c, 200, None, None, store.id, 0)
  /\ UNCHANGED <<impl, now, referrals, verified,
                 users, deals, visits, reviews, rewards,
                 redemptions, otps, partnerStats, session, inflight>>

\* POST /api/partner/deals.  Under MemStorage no await of the handler waits
\* for I/O and the handler runs to its answer; under DatabaseStorage the
\* insert is a later step (CreateDealWrite) and other requests run in between.
PostDeal(c, body) ==
  LET store == getPartnerStoreByUserId(session[c].userId)
      category == body.category
      dealData == insertDealSchema(body, store.id)
      existingDeals == getDealsByPartnerId(store.id)
      n == Cardinality(activeDealsInCategory(existingDeals, category))
  IN
  /\ IF ~requirePartnerAuth(c)
     THEN /\ last' = Response("create-deal", c, 401, None, category, 0, 0)
          /\ UNCHANGED <<deals, inflight>>
     ELSE IF store.id = NoStore
     THEN /\ last' = Response("create-deal", c, 404, None, category, 0, 0)
          /\ UNCHANGED <<deals, inflight>>
     ELSE IF dealLimitReached(n)
     THEN /\ last' = Response("create-deal", c, 400, None, category, 0, n)
          /\ UNCHANGED <<deals, inflight>>
     ELSE IF impl = "mem"
     THEN /\ Len(deals) < MaxDeals
          /\ deals' = createDeal(dealData.partnerId, dealData.category)
          /\ last' = Response("create-deal", c, 201, None, category,
                              Len(deals) + 1, 0)
          /\ UNCHANGED inflight
     ELSE /\ BagCardinality(inflight) < MaxInflight
          /\ inflight' = inflight (+) SetToBag({
                 [route |-> "create-deal", client |-> c,
                  id |-> dealData.partnerId, text |-> dealData.category]})
          /\ UNCHANGED <<deals, last>>
  /\ UNCHANGED <<impl, now, referrals, verified,
                 users, partnerStores, visits, reviews, rewards,
                 redemptions, otps, partnerStats, session>>

\* The same request, its body naming the category only.
CreateDeal(c, category) == PostDeal(c, [category |-> category])

\* The insert of POST /api/partner/deals under DatabaseStorage, and the answer.
CreateDealWrite(req) ==
  /\ BagIn(req, inflight)
  /\ req.route = "create-deal"
  /\ Len(deals) < MaxDeals
  /\ deals' = createDeal(req.id, req.text)
  /\ inflight' = inflight (-) SetToBag({req})
  /\ last' = Response("create-deal", req.client, 201, None, req.text,
                      Len(deals) + 1, 0)
  /\ UNCHANGED <<impl, now, referrals, verified,
                 users, partnerStores, visits, reviews, rewards,
                 redemptions, otps, partnerStats, session>>

\* PATCH /api/partner/deals/:id
UpdateDeal(c, dealId, body) ==
  LET store == getPartnerStoreByUserId(session[c].userId)
      deal == getDealById(dealId)
  IN
  /\ IF ~requirePartnerAuth(c)
     THEN /\ last' = Response("update-deal", c, 401, None, None, 0, 0)
          /\ UNCHANGED deals
     ELSE IF store.id = NoStore \/ deal.id = NoDeal
     THEN /\ last' = Response("update-deal", c, 404, None, None, 0, 0)
          /\ UNCHANGED deals
     ELSE IF ~ownsDeal(deal, store)
     THEN /\ last' = Response("update-deal", c, 403, None, None, 0, 0)
          /\ UNCHANGED deals
     ELSE IF impl = "db" /\ ~dealForeignKeys(Merge(deal, body))
     THEN /\ last' = Response("update-deal", c, 500, None, None, 0, 0)
          /\ UNCHANGED deals
     ELSE /\ deals' = updateDeal(dealId, body)
          /\ last' = Response("update-deal", c, 200, None, None, 0, 0)
  /\ UNCHANGED <<impl, now, referrals, verified,
                 users, partnerStores, visits, reviews, rewards,
                 redemptions, otps, partnerStats, session, inflight>>

\* POST /api/partner/deals/:id/deactivate
DeactivateDeal(c, dealId) ==
  LET store == getPartnerStoreByUserId(session[c].userId)
      deal == getDealById(dealId)
  IN
  /\ IF ~requirePartnerAuth(c)
     THEN /\ last' = Response("deactivate-deal", c, 401, None, None, 0, 0)
          /\ UNCHANGED deals
     ELSE IF store.id = NoStore \/ deal.id = NoDeal
     THEN /\ last' = Response("deactivate-deal", c, 404, None, None, 0, 0)
          /\ UNCHANGED deals
     ELSE IF ~ownsDeal(deal, store)
     THEN /\ last' = Response("deactivate-deal", c, 403, None, None, 0, 0)
          /\ UNCHANGED deals
     ELSE /\ deals' = deactivateDeal(dealId)
          /\ last' = Response("deactivate-deal", c, 200, None, None, 0, 0)
  /\ UNCHANGED <<impl, now, referrals, verified,
                 users, partnerStores, visits, reviews, rewards,
                 redemptions, otps, partnerStats, session, inflight>>

\* ----------------------------------------------------------- consumer routes
\* GET /api/consumer/deals
GetConsumerDeals(c, filter) ==
  /\ last' = Response("consumer-deals", c, 200, None, filter.query, 0,
                      Cardinality(consumerDeals(filter.category, filter.query)))
  /\ UNCHANGED <<impl, now, tables, otps, session, inflight, verified>>

\* POST /api/consumer/visits
CreateVisit(c, body) ==
  LET visitData == insertVisitSchema(body, session[c].userId) IN
  /\ Len(visits) < MaxVisits
  /\ IF ~requireConsumerAuth(c)
     THEN /\ last' = Response("create-visit", c, 401, None, None, 0, 0)
          /\ UNCHANGED <<visits, partnerStats>>
     ELSE IF impl = "db" /\ ~visitForeignKeys(visitData.partnerId)
     THEN /\ last' = Response("create-visit", c, 500, None, None, 0, 0)
          /\ UNCHANGED <<visits, partnerStats>>
     ELSE /\ visits' = createVisit(visitData)
          /\ partnerStats' = incrementScheduledVisits(visitData.partnerId)
          /\ last' = Response("create-visit", c, 201, None, None,
                              Len(visits) + 1,
                              IF "userId" \in DOMAIN body THEN body.userId
                              ELSE NoUser)
  /\ UNCHANGED <<impl, now, referrals, verified,
                 users, partnerStores, deals, reviews, rewards,
                 redemptions, otps, session, inflight>>

\* POST /api/consumer/visits/:id/complete
ConsumerCompleteVisit(c, visitId) ==
  LET visit == getVisitById(visitId) IN
  /\ IF ~requireConsumerAuth(c)
     THEN /\ last' = Response("consumer-complete", c, 401, None, None, visitId, 0)
          /\ UNCHANGED <<visits, partnerStats, rewards>>
     ELSE IF visit.id = NoVisit
     THEN /\ last' = Response("consumer-complete", c, 404, None, None, visitId, 0)
          /\ UNCHANGED <<visits, partnerStats, rewards>>
     ELSE IF ~ownsVisit(visit, session[c].userId)
     THEN /\ last' = Response("consumer-complete", c, 403, None, None, visitId, 0)
          /\ UNCHANGED <<visits, partnerStats, rewards>>
     ELSE /\ visits' = completedVisits(visitId)
          /\ partnerStats' = incrementActualVisits(visit.partnerId)
          /\ rewards' = createReward(markVisitAsCompleted_Rewards(visitId),
                                     Reward(session[c].userId, VisitPoints,
                                            "Completed store visit", visitId))
          /\ last' = Response("consumer-complete", c, 200, None, None, visitId, 0)
  /\ UNCHANGED <<impl, now, referrals, verified,
                 users, partnerStores, deals, reviews,
                 redemptions, otps, session, inflight>>

\* POST /api/partner/visits/:id/complete
PartnerCompleteVisit(c, visitId) ==
  LET store == getPartnerStoreByUserId(session[c].userId)
      visit == getVisitById(visitId)
  IN
  /\ IF ~requirePartnerAuth(c)
     THEN /\ last' = Response("partner-complete", c, 401, None, None, visitId, 0)
          /\ UNCHANGED <<visits, partnerStats, rewards>>
     ELSE IF store.id = NoStore \/ visit.id = NoVisit
     THEN /\ last' = Response("partner-complete", c, 404, None, None, visitId, 0)
          /\ UNCHANGED <<visits, partnerStats, rewards>>
     ELSE IF ~storeOwnsVisit(visit, store)
     THEN /\ last' = Response("partner-complete", c, 403, None, None, visitId, 0)
          /\ UNCHANGED <<visits, partnerStats, rewards>>
     ELSE /\ visits' = completedVisits(visitId)
          /\ partnerStats' = incrementActualVisits(visit.partnerId)
          /\ rewards' = markVisitAsCompleted_Rewards(visitId)
          /\ last' = Response("partner-complete", c, 200, None, None, visitId, 0)
  /\ UNCHANGED <<impl, now, referrals, verified,
                 users, partnerStores, deals, reviews,
                 redemptions, otps, session, inflight>>

\* PATCH /api/consumer/profile
UpdateProfile(c, body) ==
  LET userId == session[c].userId IN
  /\ IF ~requireConsumerAuth(c)
     THEN /\ last' = Response("update-profile", c, 401, None, None, 0, 0)
          /\ UNCHANGED users
     ELSE IF /\ impl = "db"
             /\ "phone" \in DOMAIN body
             /\ ~usersPhoneUnique(userId, body.phone)
     THEN /\ last' = Response("update-profile", c, 500, None, None, userId, 0)
          /\ UNCHANGED users
     ELSE /\ users' = updateUser(userId, body)
          /\ last' = Response("update-profile", c, 200, None, None, userId, 0)
  /\ UNCHANGED <<impl, now, referrals, verified,
                 partnerStores, deals, visits, reviews, rewards,
                 redemptions, otps, partnerStats, session, inflight>>

\* POST /api/consumer/reviews
CreateReview(c, body) ==
  LET reviewData == insertReviewSchema(body, session[c].userId) IN
  /\ Len(reviews) < MaxReviews
  /\ IF ~requireConsumerAuth(c)
     THEN /\ last' = Response("create-review", c, 401, None, None, 0, 0)
          /\ UNCHANGED <<reviews, rewards>>
     ELSE IF impl = "db" /\ ~reviewForeignKeys(reviewData.partnerId)
     THEN /\ last' = Response("create-review", c, 500, None, None, 0, 0)
          /\ UNCHANGED <<reviews, rewards>>
     ELSE /\ reviews' = createReview(reviewData)
          /\ rewards' = createReview_Rewards(session[c].userId)
          /\ last' = Response("create-review", c, 201, None, None,
                              Len(reviews) + 1, body.rating)
  /\ UNCHANGED <<impl, now, referrals, verified,
                 users, partnerStores, deals, visits,
                 redemptions, otps, partnerStats, session, inflight>>

\* The write of POST /api/consumer/redeem, storage.createRedemption, and the
\* answer: 201, or 500 when the insert throws.
RedeemResult(c, redemption, totalPoints, code) ==
  LET row == redemptionRow(redemption, code) IN
  IF ~redemptionNotNull(row)
  THEN /\ last' = Response("redeem", c, 500, None, None,
                           redemption.points, totalPoints)
       /\ UNCHANGED <<redemptions, rewards>>
  ELSE /\ redemptions' = Append(redemptions, row)
       /\ rewards' = createRedemption_Rewards(row)
       /\ last' = Response("redeem", c, 201, None, None,
                           redemption.points, totalPoints)

\* POST /api/consumer/redeem.  Under DatabaseStorage the insert is a later
\* step (RedeemWrite); under MemStorage the handler runs to its answer.
Redeem(c, body, partnerId, code) ==
  LET userId == session[c].userId
      redemptionData == insertRedemptionSchema(body, userId, partnerId)
      totalPoints == getTotalRewardPointsByUserId(userId)
  IN
  /\ Len(redemptions) < MaxRedemptions
  /\ IF ~requireConsumerAuth(c)
     THEN /\ last' = Response("redeem", c, 401, None, None, body.points, 0)
          /\ UNCHANGED <<redemptions, rewards, inflight>>
     ELSE IF redeemRejected(totalPoints, redemptionData.points)
     THEN /\ last' = Response("redeem", c, 400, None, None,
                              body.points, totalPoints)
          /\ UNCHANGED <<redemptions, rewards, inflight>>
     ELSE IF impl = "mem"
     THEN /\ RedeemResult(c, redemptionData, totalPoints, code)
          /\ UNCHANGED inflight
     ELSE /\ BagCardinality(inflight) < MaxInflight
          /\ inflight' = inflight (+) SetToBag({
                 [route |-> "redeem", client |-> c, data |-> redemptionData,
                  num |-> totalPoints]})
          /\ UNCHANGED <<redemptions, rewards, last>>
  /\ UNCHANGED <<impl, now, referrals, verified,
                 users, partnerStores, deals, visits, reviews,
                 otps, partnerStats, session>>

\* The insert of POST /api/consumer/redeem under DatabaseStorage.
RedeemWrite(req, code) ==
  /\ BagIn(req, inflight)
  /\ req.route = "redeem"
  /\ RedeemResult(req.client, req.data, req.num, code)
  /\ inflight' = inflight (-) SetToBag({req})
  /\ UNCHANGED <<impl, now, referrals, verified,
                 users, partnerStores, deals, visits, reviews,
                 otps, partnerStats, session>>

\* POST /api/consumer/referrals
CreateReferral(c, body) ==
  LET referralData == insertReferralSchema(body, session[c].userId) IN
  /\ Len(referrals) < MaxReferrals
  /\ IF ~requireConsumerAuth(c)
     THEN /\ last' = Response("create-referral", c, 401, body.referredPhone,
                              None, 0, 0)
          /\ UNCHANGED referrals
     ELSE IF getUserByPhone(referralData.referredPhone).id # NoUser
     THEN /\ last' = Response("create-referral", c, 400, body.referredPhone,
                              None, 0, 0)
          /\ UNCHANGED referrals
     ELSE /\ referrals' = createReferral(referralData)
          /\ last' = Response("create-referral", c, 201, body.referredPhone,
                              None, Len(referrals) + 1, 0)
  /\ UNCHANGED <<impl, now, verified,
                 users, partnerStores, deals, visits, reviews, rewards,
                 redemptions, otps, partnerStats, session, inflight>>

\* storage.updateReferralStatus(id, status): a method of both
\* implementations that no route calls.
UpdateReferralStatus(id, status) ==
  /\ id \in 1..Len(referrals)
  /\ referrals' = updateReferralStatus(id, status)
  /\ rewards' = updateReferralStatus_Rewards(id, status)
  /\ UNCHANGED <<impl, now, verified,
                 users, partnerStores, deals, visits, reviews,
                 redemptions, otps, partnerStats, session, inflight, last>>

\* storage.publishReview(id): a method of both implementations that no route
\* calls; it is the storage's caller outside the routes that publishes.
PublishReview(id) ==
  /\ id \in 1..Len(reviews)
  /\ reviews' = publishReview(id)
  /\ UNCHANGED <<impl, now, referrals, verified,
                 users, partnerStores, deals, visits, rewards,
                 redemptions, otps, partnerStats, session, inflight, last>>

\* GET /api/consumer/stores/:id (no authentication): the answer carries the
\* store, its active deals and getReviewsByPartnerId; last.aux counts the
\* reviews it carries.
GetStoreDetails(c, storeId) ==
  /\ IF getPartnerStoreById(storeId).id = NoStore
     THEN /\ last' = Response("store-details", c, 404, None, None, storeId, 0)
          /\ UNCHANGED partnerStats
     ELSE /\ partnerStats' = incrementStoreViews(storeId)
          /\ last' = Response("store-details", c, 200, None, None, storeId,
                              Cardinality(getReviewsByPartnerId(storeId)))
  /\ UNCHANGED <<impl, now, referrals, verified,
                 users, partnerStores, deals, visits, reviews, rewards,
                 redemptions, otps, session, inflight>>

\* GET /api/consumer/stores/:id under DatabaseStorage, requests interleaving:
\* first the store lookup and the select of incrementStoreViews ...
StoreViewRead(c, storeId) ==
  /\ impl = "db"
  /\ BagCardinality(inflight) < MaxInflight
  /\ IF getPartnerStoreById(storeId).id = NoStore
     THEN /\ last' = Response("store-details", c, 404, None, None, storeId, 0)
          /\ UNCHANGED inflight
     ELSE /\ inflight' = inflight (+) SetToBag({
                 [route |-> "store-details", client |-> c, id |-> storeId,
                  found |-> \E r \in partnerStats :
                              r.partnerId = storeId /\ r.date = Today,
                  row |-> getPartnerStatsByDate(storeId, Today)]})
          /\ UNCHANGED last
  /\ UNCHANGED <<impl, now, tables, otps, session, verified>>

\* ... then its update or insert, and the answer.
StoreViewWrite(req) ==
  /\ BagIn(req, inflight)
  /\ req.route = "store-details"
  /\ inflight' = inflight (-) SetToBag({req})
  /\ partnerStats' = incrementStoreViews_Write(req.id, req.found, req.row)
  /\ last' = Response("store-details", req.client, 200, None, None, req.id,
                      Cardinality(getReviewsByPartnerId(req.id)))
  /\ UNCHANGED <<impl, now, referrals, verified,
                 users, partnerStores, deals, visits, reviews, rewards,
                 redemptions, otps, session>>

\* GET /api/partner/reviews
GetPartnerReviews(c) ==
  LET store == getPartnerStoreByUserId(session[c].userId) IN
  /\ IF ~requirePartnerAuth(c)
     THEN last' = Response("partner-reviews", c, 401, None, None, 0, 0)
     ELSE IF store.id = NoStore
     THEN last' = Response("partner-reviews", c, 404, None, None, 0, 0)
     ELSE last' = Response("partner-reviews", c, 200, None, None, store.id,
                           Cardinality(getReviewsByPartnerId(store.id)))
  /\ UNCHANGED <<impl, now, tables, otps, session, inflight, verified>>

\* The clock.
Tick(d) ==
  /\ now < MaxTime
  /\ now' = now + d
  /\ UNCHANGED <<impl, tables, otps, session, inflight, last, verified>>

NextOtp ==
  \/ \E c \in OtpClients, p \in Phones \cup {BadPhone}, o \in OtpCodes : SendOtp(c, p, o)
  \/ \E c \in OtpClients, p \in Phones, o \in OtpInputs : VerifyOtp(c, p, o)
  \/ \E c \in OtpClients, p \in Phones : RegisterConsumer(c, p)
  \/ \E d \in TickSteps : Tick(d)

SpecOtp == Init /\ [][NextOtp]_vars

\* The authentication flow: the OTP routes and both registration routes.
NextAuth ==
  \/ \E c \in OtpClients, p \in Phones, o \in OtpCodes : SendOtp(c, p, o)
  \/ \E c \in OtpClients, p \in Phones, o \in OtpInputs : VerifyOtp(c, p, o)
  \/ \E c \in OtpClients, p \in Phones : RegisterConsumer(c, p)
  \/ \E c \in OtpClients, p \in Phones : RegisterPartner(c, p)

SpecAuth == Init /\ [][NextAuth]_vars

InflightRequests == DOMAIN inflight

\* The ids a request names: those of the stored deals and one of no deal.
DealIds == 1..(Len(deals) + 1)

NextDeals ==
  \/ \E c \in DealClients, p \in DealPhones : RegisterPartner(c, p)
  \/ \E c \in DealClients, cat \in Categories : CreateDeal(c, cat)
  \/ \E req \in InflightRequests : CreateDealWrite(req)
  \/ \E c \in DealClients, id \in DealIds, body \in DealPatches :
        UpdateDeal(c, id, body)
  \/ \E c \in DealClients, id \in DealIds : DeactivateDeal(c, id)

SpecDeals == Init /\ [][NextDeals]_vars

\* The ids a request names: those of the stored rows and one of no row.
VisitIds == 1..(Len(visits) + 1)
VisitStoreIds == 1..(Len(partnerStores) + 1)

\* The ledger and the visit counters grow with every completion: a run is
\* cut where the next request could pass the bound.
LedgerBound ==
  /\ SumActualVisits(partnerStats) < MaxCompletions
  /\ BagCardinality(rewards) + 2 <= MaxRewards

ChainBound == BagCardinality(rewards) + 2 <= MaxChain

NextLedger ==
  \/ RegisterConsumer(ConsumerClient, ConsumerPhone)
  \/ RegisterPartner(PartnerClient, PartnerPhone)
  \/ \E c \in Clients, s \in VisitStoreIds : CreateVisit(c, VisitBody(s))
  \/ \E c \in Clients, v \in VisitIds :
        LedgerBound /\ ConsumerCompleteVisit(c, v)
  \/ \E c \in Clients, v \in VisitIds :
        LedgerBound /\ PartnerCompleteVisit(c, v)
  \/ \E c \in Clients, s \in VisitStoreIds, r \in Ratings :
        LedgerBound /\ CreateReview(c, ReviewBody(s, r))
  \/ \E c \in Clients, body \in RedeemBodies, code \in RedemptionCodes :
        Redeem(c, body, 1, code)
  \/ \E req \in InflightRequests, code \in RedemptionCodes : RedeemWrite(req, code)

SpecLedger == Init /\ [][NextLedger]_vars

\* The redemption flow alone, followed until a balance passes the maximum:
\* one consumer completes visits, 100 points a time, and redeems, sending
\* each request after the answer to the one before.
Sequential == inflight = EmptyBag
ChainCodes == {"V1StGX"}

NextRedeem ==
  \/ Sequential /\ RegisterConsumer(ConsumerClient, ConsumerPhone)
  \/ Sequential /\ RegisterPartner(PartnerClient, PartnerPhone)
  \/ \E s \in VisitStoreIds :
        Sequential /\ CreateVisit(ConsumerClient, VisitBody(s))
  \/ \E v \in VisitIds :
        Sequential /\ ChainBound /\ ConsumerCompleteVisit(ConsumerClient, v)
  \/ \E body \in RedeemBodies, code \in ChainCodes :
        Sequential /\ Redeem(ConsumerClient, body, 1, code)
  \/ \E req \in InflightRequests, code \in ChainCodes : RedeemWrite(req, code)

SpecRedeem == Init /\ [][NextRedeem]_vars

\* The review flow: one consumer reviews the stores under every body, the
\* storage publishes, and the two routes that answer with reviews are read.
ReviewBodies(storeIds) ==
  {ReviewBody(s, r) : s \in storeIds, r \in RatingInputs}
    \cup {ForgedReviewBody(s, r) : s \in storeIds, r \in Ratings}

ViewBound == SumStoreViews(partnerStats) < MaxViews

NextReviews ==
  \/ RegisterConsumer(ConsumerClient, ConsumerPhone)
  \/ RegisterPartner(PartnerClient, PartnerPhone)
  \/ \E body \in ReviewBodies(VisitStoreIds) : CreateReview(ConsumerClient, body)
  \/ \E id \in 1..Len(reviews) : PublishReview(id)
  \/ \E c \in Clients, s \in VisitStoreIds : ViewBound /\ GetStoreDetails(c, s)
  \/ \E c \in Clients : GetPartnerReviews(c)

SpecReviews == Init /\ [][NextReviews]_vars

\* The referral flow: consumers register, refer a phone, and the storage
\* sets the status of a referral.
ReferralBodies ==
  {ReferralBody(p) : p \in Phones} \cup {ForgedReferralBody(p) : p \in Phones}

RewardBound == BagCardinality(rewards) + 2 <= MaxRewards

NextReferrals ==
  \/ \E c \in Clients, p \in Phones : RegisterConsumer(c, p)
  \/ \E c \in Clients, body \in ReferralBodies : CreateReferral(c, body)
  \/ \E id \in 1..Len(referrals), st \in ReferralStatuses :
        RewardBound /\ UpdateReferralStatus(id, st)

SpecReferrals == Init /\ [][NextReferrals]_vars

\* The visit flow: a consumer schedules visits under every body, and the
\* consumer and the partner complete them.
VisitBodies(storeIds) ==
  {VisitBody(s) : s \in storeIds} \cup {ForgedVisitBody(s) : s \in storeIds}

NextVisits ==
  \/ RegisterConsumer(ConsumerClient, ConsumerPhone)
  \/ RegisterPartner(PartnerClient, PartnerPhone)
  \/ \E c \in Clients, body \in VisitBodies(VisitStoreIds) : CreateVisit(c, body)
  \/ \E c \in Clients, v \in VisitIds :
        LedgerBound /\ ConsumerCompleteVisit(c, v)
  \/ \E c \in Clients, v \in VisitIds :
        LedgerBound /\ PartnerCompleteVisit(c, v)

SpecVisits == Init /\ [][NextVisits]_vars

\* The store flow: clients register as consumers and partners and partners
\* patch their store, the body naming the store's columns.
StorePatches == {[userId |-> u] : u \in 1..(Len(users) + 1)}

NextStores ==
  \/ \E c \in Clients, p \in Phones : RegisterConsumer(c, p)
  \/ \E c \in Clients, p \in Phones : RegisterPartner(c, p)
  \/ \E c \in Clients, p \in Phones : RegisterPartnerStoreInsertFails(c, p)
  \/ \E c \in Clients, body \in StorePatches : UpdateStore(c, body)

SpecStores == Init /\ [][NextStores]_vars

\* The owned resources: one client registers a partner and the other client
\* registers two more phones, each as a consumer or as a partner; consumers
\* schedule visits and partners create deals, and the clients send the
\* completion, update and deactivation requests for every stored id.
AccessBound == Len(deals) + BagCardinality(inflight) < MaxAccessDeals

CompletionBound ==
  /\ SumActualVisits(partnerStats) < MaxAccessCompletions
  /\ LedgerBound

NextAccess ==
  \/ \E p \in AccessPhones : Sequential /\ RegisterConsumer(ConsumerClient, p)
  \/ \E p \in AccessPhones \cup {PartnerPhone} :
        Sequential /\ RegisterPartner(IF p = PartnerPhone THEN PartnerClient
                                      ELSE ConsumerClient, p)
  \/ \E s \in VisitStoreIds :
        Sequential /\ CreateVisit(ConsumerClient, VisitBody(s))
  \/ \E v \in 1..Len(visits) :
        Sequential /\ CompletionBound /\ ConsumerCompleteVisit(ConsumerClient, v)
  \/ \E c \in Clients, v \in 1..Len(visits) :
        Sequential /\ CompletionBound /\ PartnerCompleteVisit(c, v)
  \/ \E c \in Clients, cat \in AccessCategories :
        Sequential /\ AccessBound /\ CreateDeal(c, cat)
  \/ \E req \in InflightRequests : CreateDealWrite(req)
  \/ \E c \in Clients, id \in 1..Len(deals), body \in AccessPatches :
        Sequential /\ UpdateDeal(c, id, body)
  \/ \E c \in Clients, id \in 1..Len(deals) : Sequential /\ DeactivateDeal(c, id)

SpecAccess == Init /\ [][NextAccess]_vars

\* The accounts: clients register, one request at a time or interleaved, and
\* consumers patch their profile.
NextUsers ==
  \/ \E c \in Clients, p \in Phones : RegisterConsumer(c, p)
  \/ \E c \in Clients, p \in Phones : RegisterPartner(c, p)
  \/ \E c \in Clients, p \in Phones, t \in UserTypes : RegisterRead(c, p, t)
  \/ \E req \in InflightRequests : RegisterWrite(req)
  \/ \E c \in Clients, body \in ProfilePatches : UpdateProfile(c, body)

SpecUsers == Init /\ [][NextUsers]_vars

\* The daily counters: stores are viewed (one request at a time and
\* interleaved) and visits are scheduled.
NextStats ==
  \/ RegisterConsumer(ConsumerClient, ConsumerPhone)
  \/ RegisterPartner(PartnerClient, PartnerPhone)
  \/ \E c \in Clients, s \in VisitStoreIds : ViewBound /\ GetStoreDetails(c, s)
  \/ \E c \in Clients, s \in VisitStoreIds : ViewBound /\ StoreViewRead(c, s)
  \/ \E req \in InflightRequests : StoreViewWrite(req)
  \/ \E s \in VisitStoreIds : CreateVisit(ConsumerClient, VisitBody(s))

SpecStats == Init /\ [][NextStats]_vars

\* The deal listing: a partner creates deals, moves their window, and
\* deactivates them; clients list the deals under every filter.
ListingPatches == {[startDate |-> Today + 1], [endDate |-> Today + 1]}

NextListing ==
  \/ RegisterPartner(PartnerClient, PartnerPhone)
  \/ \E cat \in Categories : AccessBound /\ CreateDeal(PartnerClient, cat)
  \/ \E req \in InflightRequests : CreateDealWrite(req)
  \/ \E id \in 1..Len(deals), body \in ListingPatches :
        UpdateDeal(PartnerClient, id, body)
  \/ \E id \in 1..Len(deals) : DeactivateDeal(PartnerClient, id)
  \/ \E c \in Clients, filter \in DealFilters : GetConsumerDeals(c, filter)

SpecListing == Init /\ [][NextListing]_vars

\* The attribution of created rows: a consumer and a partner register, and
\* every creating request names a user's or a store's id in its body.
OtherIds == 1..MaxUsers

NextAttribution ==
  \/ Sequential /\ RegisterConsumer(ConsumerClient, ConsumerPhone)
  \/ \E c \in Clients : Sequential /\ RegisterPartner(c, PartnerPhone)
  \/ \E s \in VisitStoreIds, u \in OtherIds :
        Sequential /\ CreateVisit(ConsumerClient, OtherVisitBody(s, u))
  \/ \E v \in 1..Len(visits) :
        Sequential /\ LedgerBound /\ ConsumerCompleteVisit(ConsumerClient, v)
  \/ \E s \in 1..Len(partnerStores), r \in Ratings, u \in OtherIds :
        Sequential /\ LedgerBound
          /\ CreateReview(ConsumerClient, OtherReviewBody(s, r, u))
  \/ \E u \in OtherIds, code \in ChainCodes :
        Redeem(ConsumerClient, OtherRedeemBody(u), 1, code)
  \/ \E req \in InflightRequests, code \in ChainCodes : RedeemWrite(req, code)
  \/ \E u \in OtherIds :
        Sequential /\ CreateReferral(ConsumerClient,
                                     OtherReferralBody("9000000003", u))
  \/ \E c \in Clients, cat \in AccessCategories, s \in OtherIds :
        Sequential /\ AccessBound /\ PostDeal(c, OtherDealBody(cat, s))
  \/ \E req \in InflightRequests : CreateDealWrite(req)

SpecAttribution == Init /\ [][NextAttribution]_vars

Next ==
  \/ NextOtp \/ NextDeals \/ NextLedger \/ NextRedeem \/ NextReviews
  \/ NextReferrals \/ NextVisits \/ NextStores \/ NextAuth
  \/ NextAccess \/ NextUsers \/ NextStats \/ NextListing
  \/ NextAttribution

Spec == Init /\ [][Next]_vars

\* =================================================================== claims

Min(x, y) == IF x <= y THEN x ELSE y

\* The sum of points over the reward rows of user u, row kind by row kind.
RECURSIVE RowSum(_, _)
RowSum(kinds, u) ==
  IF kinds = {} THEN 0
  ELSE LET r == CHOOSE x \in kinds : TRUE
       IN (IF r.userId = u THEN r.points * rewards[r] ELSE 0)
            + RowSum(kinds \ {r}, u)

ActiveDeals(storeId, category) ==
  {d \in Rows(deals) : d.partnerId = storeId /\ d.category = category /\ d.isActive}

\* C1: for every user the balance getTotalRewardPointsByUserId returns is the
\* sum of points over the reward rows of that user, and every step leaves
\* each existing reward row in the table: rows are added, never updated or
\* deleted.
C1_BalanceIsLedgerSum ==
  /\ [](\A u \in 0..Len(users) :
          getTotalRewardPointsByUserId(u) = RowSum(DOMAIN rewards, u))
  /\ [][rewards \sqsubseteq rewards']_vars

\* C1 witness: a user's ledger holds earned rows and a redemption row, and
\* the balance the route reports is their sum.
C1_Witness ==
  \E u \in 1..Len(users) :
    /\ \E r \in DOMAIN rewards : r.userId = u /\ r.points < 0
    /\ \E r \in DOMAIN rewards : r.userId = u /\ r.points > 0
    /\ getTotalRewardPointsByUserId(u) = RowSum(DOMAIN rewards, u)

\* C2: every stored redemption has 500 <= points <= 5000, a redemption the
\* route created has points <= the balance that request read, and a redeem
\* request of an authenticated consumer whose points is below 500, above 5000
\* or above the balance is answered 400 and changes neither table (nor
\* leaves an insert pending).
C2_RedemptionBounds ==
  /\ [](\A r \in Rows(redemptions) :
          MinRedemption <= r.points /\ r.points <= MaxRedemption)
  /\ []((last.route = "redeem" /\ last.status = 201) =>
          (MinRedemption <= last.num
             /\ last.num <= Min(MaxRedemption, last.aux)))
  /\ [][\A c \in Clients, body \in RedeemBodies, code \in RedemptionCodes :
          (/\ Redeem(c, body, 1, code)
           /\ requireConsumerAuth(c)
           /\ \/ body.points < MinRedemption
              \/ body.points > MaxRedemption
              \/ body.points > getTotalRewardPointsByUserId(session[c].userId))
          => (/\ last'.status = 400
              /\ redemptions' = redemptions
              /\ rewards' = rewards
              /\ inflight' = inflight)]_vars

\* C2 witness: a request for more than the maximum was answered 400 although
\* the balance it read covered the points.
C2_Witness ==
  /\ last.route = "redeem" /\ last.status = 400
  /\ last.num > MaxRedemption /\ last.aux >= last.num

\* C3: in the repository as wired (DatabaseStorage behind the routes), no
\* store has more than 3 active deals in one category.
C3_ActiveDealCap ==
  impl = "db" =>
    \A s \in 1..Len(partnerStores), cat \in Categories :
      Cardinality(ActiveDeals(s, cat)) <= MaxActiveDealsPerCategory

\* C7: a POST /api/partner/deals of a partner whose store has 3 (or more)
\* active deals in the request's category is answered 400, creates no deal,
\* leaves the deals as they are and leaves no insert pending.
C7_FourthDealRejected ==
  [][\A c \in Clients, cat \in Categories :
       (/\ CreateDeal(c, cat)
        /\ requirePartnerAuth(c)
        /\ getPartnerStoreByUserId(session[c].userId).id # NoStore
        /\ Cardinality(ActiveDeals(
              getPartnerStoreByUserId(session[c].userId).id, cat))
             >= MaxActiveDealsPerCategory)
       => (last'.status = 400 /\ deals' = deals /\ inflight' = inflight)]_vars

\* C7 witness: a create-deal request was answered 400 having counted 3 active
\* deals of its category, and the store still has exactly those 3.
C7_Witness ==
  /\ last.route = "create-deal" /\ last.status = 400
  /\ last.aux = MaxActiveDealsPerCategory
  /\ Cardinality(ActiveDeals(
        getPartnerStoreByUserId(session[last.client].userId).id, last.text))
       = MaxActiveDealsPerCategory

C9_RedemptionPendingWithCode ==
  [][\A code \in RedemptionCodes :
       (\/ \E req \in InflightRequests : RedeemWrite(req, code)
        \/ \E c \in Clients, body \in RedeemBodies :
              /\ Redeem(c, body, 1, code)
              /\ impl = "mem"
              /\ requireConsumerAuth(c)
              /\ ~redeemRejected(getTotalRewardPointsByUserId(session[c].userId),
                                 body.points))
       => (/\ Len(redemptions') = Len(redemptions) + 1
           /\ redemptions'[Len(redemptions')].status = "pending"
           /\ redemptions'[Len(redemptions')].code = code
           /\ code # Null)]_vars

\* C10: whenever a visit changes to status 'completed', the same request
\* adds a reward row for the visit's consumer whose referenceId is the visit.
C10_CompletionRewards ==
  [][\A v \in 1..Len(visits) :
       (visits[v].status # "completed" /\ visits'[v].status = "completed")
       => \E r \in DOMAIN rewards' :
            /\ r.userId = visits[v].userId
            /\ r.referenceId = v
            /\ r.points > 0
            /\ CopiesIn(r, rewards') > CopiesIn(r, rewards)]_vars

\* C4: an OTP is single-use: once verify-otp has succeeded for a (phone, code)
\* pair, the same pair no longer verifies until send-otp issues a new OTP for
\* the phone.  Stated on the state left by the successful request: while that
\* request is the last one answered, verifyOTP(phone, code) is false.
C4_OtpSingleUse ==
  (last.route = "verify-otp" /\ last.status = 200)
    => ~verifyOtp(last.phone, last.text)

\* C5: an expired OTP fails verification: send-otp stores expiresAt = issue
\* time + 10 minutes, and a verify-otp request made when the current time is
\* later than the stored expiresAt is answered 400, sets no session and marks
\* no user verified, also when the code matches.
C5_ExpiredOtpFails ==
  /\ [][\A c \in OtpClients, p \in Phones, o \in OtpCodes :
          SendOtp(c, p, o) => getOtpByPhone(p)'.expiresAt = now + OtpTtl]_vars
  /\ [][\A c \in OtpClients, p \in Phones, o \in OtpInputs :
          (VerifyOtp(c, p, o) /\ getOtpByPhone(p) # NoOtp
             /\ now > getOtpByPhone(p).expiresAt)
          => (last'.status = 400 /\ session' = session /\ users' = users)]_vars

\* C5 witness: a verify-otp with the stored code was answered 400 and the
\* stored OTP is past its expiry.
C5_Witness ==
  /\ last.route = "verify-otp" /\ last.status = 400
  /\ getOtpByPhone(last.phone) # NoOtp
  /\ getOtpByPhone(last.phone).otp = last.text
  /\ now > getOtpByPhone(last.phone).expiresAt

\* C6: an OTP is superseded on reissue: at most one OTP is stored per phone,
\* and once send-otp has issued a code for a phone no other code verifies for
\* that phone, an earlier unexpired code included.
C6_OtpSuperseded ==
  /\ \A p \in Phones : Cardinality({r \in otps : r.phone = p}) <= 1
  /\ (last.route = "send-otp" /\ last.status = 200)
       => \A o \in OtpInputs : verifyOtp(last.phone, o) => o = last.text

\* C6 witness: send-otp replaced an unexpired OTP of a different code, and the
\* new code verifies.
C6_Witness ==
  /\ last.route = "send-otp" /\ last.status = 200 /\ last.num = 1
  /\ verifyOtp(last.phone, last.text)

C12_ReviewEarns100 ==
  [][\A c \in Clients, s \in 1..(Len(partnerStores) + 1), r \in Ratings :
       (CreateReview(c, ReviewBody(s, r)) /\ last'.status = 201)
       => /\ \E row \in DOMAIN rewards' :
               /\ row.userId = session[c].userId
               /\ row.points = ReviewPoints
               /\ rewards' = rewards (+) SetToBag({row})
          /\ getTotalRewardPointsByUserId(session[c].userId)'
               = getTotalRewardPointsByUserId(session[c].userId) + ReviewPoints]_vars

\* C13: a review starts unpublished: every review POST /api/consumer/reviews
\* stores has isPublished = false whatever the body said, a step makes a
\* review published only by publishReview, and the answers of
\* GET /api/consumer/stores/:id and GET /api/partner/reviews carry the
\* published reviews of the store and no other.
C13_ReviewStartsUnpublished ==
  /\ [][Len(reviews') > Len(reviews)
          => (/\ Len(reviews') = Len(reviews) + 1
              /\ reviews'[Len(reviews')].isPublished = FALSE)]_vars
  /\ [][\A i \in 1..Len(reviews) :
          (reviews[i].isPublished = FALSE /\ reviews'[i].isPublished # FALSE)
          => PublishReview(i)]_vars
  /\ [](\A s \in 1..Len(partnerStores) :
          \A r \in getReviewsByPartnerId(s) : r.isPublished = TRUE)
  /\ [][\A c \in Clients :
          /\ \A s \in 1..Len(partnerStores) :
                GetStoreDetails(c, s) =>
                  last'.aux = Cardinality({r \in Rows(reviews) :
                                r.partnerId = s /\ r.isPublished = TRUE})
          /\ (GetPartnerReviews(c) /\ last'.status = 200) =>
                last'.aux = Cardinality({r \in Rows(reviews) :
                              r.partnerId = last'.num /\ r.isPublished = TRUE})]_vars

\* C13 witness: a store has a published review and an unpublished one, and
\* the last answer of GET /api/consumer/stores/:id carried one review.
C13_Witness ==
  /\ last.route = "store-details" /\ last.status = 200 /\ last.aux = 1
  /\ \E r \in Rows(reviews) : r.partnerId = last.num /\ r.isPublished = TRUE
  /\ \E r \in Rows(reviews) : r.partnerId = last.num /\ r.isPublished = FALSE

\* C14: every stored review has a rating in 1..5, and a POST
\* /api/consumer/reviews of an authenticated consumer with a rating outside
\* 1..5 is answered 400 and stores no review.
C14_RatingInRange ==
  /\ [](\A r \in Rows(reviews) : r.rating \in 1..5)
  /\ [][\A c \in Clients, s \in 1..(Len(partnerStores) + 1),
          r \in RatingInputs \ (1..5) :
          (CreateReview(c, ReviewBody(s, r)) /\ requireConsumerAuth(c))
          => (last'.status = 400 /\ reviews' = reviews)]_vars

\* The reward rows of referrals.
ReferralRewards(table) ==
  {r \in DOMAIN table :
     r.reason \in {"Successful referral", "Joined through referral"}}

\* C15: a referral is created with status 'pending'; a call of
\* updateReferralStatus(id, 'completed') made when the referrer and a user of
\* the referred phone exist adds one reward of 1000 points for each of the
\* two, referencing the referral; and a step adds referral rewards only by
\* completing the referral they reference.
C15_ReferralRewards ==
  /\ [][Len(referrals') > Len(referrals)
          => (/\ Len(referrals') = Len(referrals) + 1
              /\ referrals'[Len(referrals')].status = "pending")]_vars
  /\ [][\A id \in 1..Len(referrals) :
          (/\ UpdateReferralStatus(id, "completed")
           /\ getUserById(referrals[id].referrerId).id # NoUser
           /\ getUserByPhone(referrals[id].referredPhone).id # NoUser)
          => rewards' =
               rewards
                 (+) SetToBag({Reward(referrals[id].referrerId, ReferralPoints,
                                      "Successful referral", id)})
                 (+) SetToBag({Reward(
                        getUserByPhone(referrals[id].referredPhone).id,
                        ReferralPoints, "Joined through referral", id)})]_vars
  /\ [][\A r \in ReferralRewards(rewards') :
          CopiesIn(r, rewards') > CopiesIn(r, rewards)
          => (/\ r.referenceId \in 1..Len(referrals)
              /\ UpdateReferralStatus(r.referenceId, "completed"))]_vars

\* C16: a visit is created with status 'scheduled' and markedAsVisited =
\* false whatever the body said; a step changes the status of a visit only
\* from 'scheduled' to 'completed', setting markedAsVisited = true with it;
\* and a completed visit stays completed.
C16_VisitLifecycle ==
  /\ [][Len(visits') > Len(visits)
          => (/\ Len(visits') = Len(visits) + 1
              /\ visits'[Len(visits')].status = "scheduled"
              /\ visits'[Len(visits')].markedAsVisited = FALSE)]_vars
  /\ [][\A v \in 1..Len(visits) :
          /\ visits'[v].status # visits[v].status
                => (/\ visits[v].status = "scheduled"
                    /\ visits'[v].status = "completed"
                    /\ visits'[v].markedAsVisited = TRUE)
          /\ visits[v].status = "completed"
                => visits'[v].status = "completed"]_vars

\* C16 witness: a completion request was answered 200 and the visit it
\* named is completed and marked as visited.
C16_Witness ==
  /\ last.route \in {"consumer-complete", "partner-complete"}
  /\ last.status = 200
  /\ last.num \in 1..Len(visits)
  /\ visits[last.num].status = "completed"
  /\ visits[last.num].markedAsVisited = TRUE

\* C17: a deal is created active, a POST /api/partner/deals/:id/deactivate
\* answered 200 leaves the deal with isActive = false, and no step makes a
\* deal that is not active active again.
C17_DealLifecycle ==
  /\ [][Len(deals') > Len(deals)
          => (/\ Len(deals') = Len(deals) + 1
              /\ deals'[Len(deals')].isActive = TRUE)]_vars
  /\ [][\A c \in Clients, d \in 1..Len(deals) :
          (DeactivateDeal(c, d) /\ last'.status = 200)
          => deals'[d].isActive = FALSE]_vars
  /\ [][\A d \in 1..Len(deals) :
          deals[d].isActive = FALSE => deals'[d].isActive = FALSE]_vars

\* C18: PartnerStore is one-to-one with a partner user: every store's userId
\* names a stored user whose userType is 'partner', no user owns two stores,
\* and every partner user has a store (a request in which createPartnerStore
\* failed after createUser included).
C18_StoreOneToOne ==
  /\ \A s \in Rows(partnerStores) :
       /\ s.userId \in 1..Len(users)
       /\ users[s.userId].userType = "partner"
  /\ \A s1, s2 \in Rows(partnerStores) : s1.userId = s2.userId => s1.id = s2.id
  /\ \A u \in Rows(users) :
       u.userType = "partner" => \E s \in Rows(partnerStores) : s.userId = u.id

\* C19: all authentication uses OTP: a client holds a session for user u only
\* if that client has submitted a valid, unexpired OTP for u's phone number;
\* no route, the registration routes included, logs a client in for a phone
\* whose OTP it never verified.
C19_AuthUsesOtp ==
  \A c \in Clients :
    session[c].userId # NoUser =>
      <<c, users[session[c].userId].phone>> \in verified

\* C20: a request on a resource the session does not own changes nothing: a
\* consumer completing a visit of another user, a partner updating or
\* deactivating a deal of another store, and a partner completing a visit at
\* another store are answered 403 and leave the visits, the deals, the
\* partner stats and the reward ledger as they were.
C20_ForbiddenChangesNothing ==
  [][\A c \in Clients :
       LET userId == session[c].userId
           store == getPartnerStoreByUserId(userId)
           Refused == /\ last'.status = 403
                      /\ UNCHANGED <<visits, deals, partnerStats, rewards>>
       IN
       /\ \A v \in 1..Len(visits) :
            /\ ( /\ requireConsumerAuth(c)
                 /\ visits[v].userId # userId
                 /\ ConsumerCompleteVisit(c, v) ) => Refused
            /\ ( /\ requirePartnerAuth(c)
                 /\ store.id # NoStore
                 /\ visits[v].partnerId # store.id
                 /\ PartnerCompleteVisit(c, v) ) => Refused
       /\ \A d \in 1..Len(deals) :
            ( /\ requirePartnerAuth(c)
              /\ store.id # NoStore
              /\ deals[d].partnerId # store.id
              /\ \/ DeactivateDeal(c, d)
                 \/ \E body \in AccessPatches : UpdateDeal(c, d, body) )
              => Refused
    ]_vars

\* A partner with a store has asked to complete a visit scheduled at another
\* store and was answered 403; the visit is still scheduled and no reward
\* was written.
C20_Witness ==
  /\ last.route = "partner-complete"
  /\ last.status = 403
  /\ requirePartnerAuth(last.client)
  /\ last.num \in 1..Len(visits)
  /\ visits[last.num].partnerId
       # getPartnerStoreByUserId(session[last.client].userId).id
  /\ visits[last.num].status = "scheduled"
  /\ rewards = EmptyBag

\* C21: round trip of the OTP flow: send-otp stores the code it issued for
\* the phone with an expiry 10 minutes ahead, the stored code changes only by
\* a reissue, and the stored code submitted to verify-otp for the same phone
\* no later than its expiry is accepted with status 200; for a registered
\* phone the request sets the session to that user and leaves the user
\* verified, for an unregistered phone it reports a new user and sets no
\* session.
C21_OtpRoundTrip ==
  /\ [][\A c \in OtpClients, p \in Phones, o \in OtpCodes :
          SendOtp(c, p, o) =>
            getOtpByPhone(p)' = [phone |-> p, otp |-> o,
                                 expiresAt |-> now + OtpTtl]]_vars
  /\ [][\A p \in Phones :
          getOtpByPhone(p)' # getOtpByPhone(p) =>
            \E c \in OtpClients, o \in OtpCodes : SendOtp(c, p, o)]_vars
  /\ [][\A c \in OtpClients, p \in Phones, o \in OtpCodes :
          ( /\ VerifyOtp(c, p, o)
            /\ getOtpByPhone(p) # NoOtp
            /\ getOtpByPhone(p).otp = o
            /\ now <= getOtpByPhone(p).expiresAt )
          => /\ last'.status = 200
             /\ IF getUserByPhone(p).id = NoUser
                THEN last'.aux = 1 /\ session' = session /\ users' = users
                ELSE /\ last'.aux = 0
                     /\ session'[c] = [userId |-> getUserByPhone(p).id,
                                       userType |-> getUserByPhone(p).userType]
                     /\ users'[getUserByPhone(p).id].isVerified]_vars

\* C21 witness: the stored code of a registered phone was submitted at the
\* very minute of its expiry and accepted; the client's session is that
\* user's and the user is verified.
C21_Witness ==
  /\ last.route = "verify-otp" /\ last.status = 200
  /\ last.num # NoUser
  /\ getOtpByPhone(last.phone).otp = last.text
  /\ now = getOtpByPhone(last.phone).expiresAt
  /\ session[last.client].userId = last.num
  /\ users[last.num].phone = last.phone
  /\ users[last.num].isVerified

C23_RegistrationBonus ==
  (last.route = "register-consumer" /\ last.status = 201)
    => getTotalRewardPointsByUserId(last.num) = RegistrationBonus

RECURSIVE RedeemedPoints(_, _)
RedeemedPoints(n, u) ==
  IF n = 0 THEN 0
  ELSE (IF redemptions[n].userId = u THEN redemptions[n].points ELSE 0)
         + RedeemedPoints(n - 1, u)

EarnedPoints(u) == RowSum({r \in DOMAIN rewards : r.points > 0}, u)

C25_CompletionIdempotent ==
  [][\A c \in Clients, v \in 1..Len(visits) :
       ( /\ visits[v].status = "completed"
         /\ ConsumerCompleteVisit(c, v) \/ PartnerCompleteVisit(c, v) )
       => (rewards' = rewards /\ partnerStats' = partnerStats)]_vars

StoreViews(partnerId) == getPartnerStatsByDate(partnerId, Today).storeViews

\* C26: daily counters lose no update: there is at most one partner_stats
\* row per store and day, and every store-detail view answered 200 raises
\* the store's storeViews of the day by exactly one and leaves the day's
\* other counters of the store as they were, requests that interleave
\* between the read of the row and its update or insert included.
C26_CountersLoseNoUpdate ==
  /\ [](\A r1, r2 \in partnerStats :
          (r1.partnerId = r2.partnerId /\ r1.date = r2.date) => r1 = r2)
  /\ [][\A req \in InflightRequests :
          StoreViewWrite(req) =>
            getPartnerStatsByDate(req.id, Today)' =
              [getPartnerStatsByDate(req.id, Today)
                 EXCEPT !.storeViews = @ + 1]]_vars
  /\ [][\A c \in Clients, s \in 1..Len(partnerStores) :
          GetStoreDetails(c, s) => StoreViews(s)' = StoreViews(s) + 1]_vars

\* C27: every deal GET /api/consumer/deals returns, with a category filter,
\* with a text query or with neither, is active and within its validity
\* window today.
C27_ListedDealsAreActive ==
  \A filter \in DealFilters :
    \A d \in consumerDeals(filter.category, filter.query) :
      d.isActive /\ d.startDate <= Today /\ Today <= d.endDate

\* C28: rows are attributed to the authenticated principal: every visit,
\* review, redemption and referral a consumer route creates carries the id
\* of the session user of the request as userId or referrerId, and every
\* deal POST /api/partner/deals creates carries the id of the store of the
\* session partner as partnerId, whatever ids the request body named.
C28_RowsAttributed ==
  [][LET principal == session[last'.client].userId IN
     /\ Len(visits') > Len(visits) =>
          (last'.route = "create-visit"
             /\ visits'[Len(visits')].userId = principal)
     /\ Len(reviews') > Len(reviews) =>
          (last'.route = "create-review"
             /\ reviews'[Len(reviews')].userId = principal)
     /\ Len(redemptions') > Len(redemptions) =>
          (last'.route = "redeem"
             /\ redemptions'[Len(redemptions')].userId = principal)
     /\ Len(referrals') > Len(referrals) =>
          (last'.route = "create-referral"
             /\ referrals'[Len(referrals')].referrerId = principal)
     /\ Len(deals') > Len(deals) =>
          (last'.route = "create-deal"
             /\ deals'[Len(deals')].partnerId
                  = getPartnerStoreByUserId(principal).id)
    ]_vars

\* C28 witness: a visit was created by a request whose body named another
\* user; the visit is the session consumer's.
C28_Witness ==
  /\ last.route = "create-visit" /\ last.status = 201
  /\ last.aux # NoUser
  /\ last.aux # session[last.client].userId
  /\ visits[last.num].userId = session[last.client].userId

\* C29: PATCH /api/consumer/profile changes profile fields only: after any
\* such request every user's id, phone, userType and isVerified are what
\* they were before it.
C29_ProfilePatchFrame ==
  [][\A c \in Clients, body \in ProfilePatches :
       UpdateProfile(c, body) =>
         \A u \in 1..Len(users) :
           /\ users'[u].id = users[u].id
           /\ users'[u].phone = users[u].phone
           /\ users'[u].userType = users[u].userType
           /\ users'[u].isVerified = users[u].isVerified]_vars

\* The two implementations of IStorage.
Storages == {"mem", "db"}

\* C30: MemStorage and DatabaseStorage are interchangeable with respect to
\* the reward ledger: whichever implementation the program runs on, a call
\* of markVisitAsCompleted, createReview, createRedemption or
\* updateReferralStatus that both implementations accept leaves the rewards
\* table that either implementation leaves from the same tables, and
\* createRedemption stores under either
\* implementation the row, with its status, that the program stored.
C30_StoragesInterchangeable ==
  [][\A s \in Storages :
       /\ \A c \in Clients, v \in 1..Len(visits) :
            (PartnerCompleteVisit(c, v) /\ last'.status = 200)
            => rewards' = markVisitAsCompleted_RewardsOf(s, v)
       /\ \A c \in Clients, st \in VisitStoreIds, r \in Ratings :
            ( /\ reviewForeignKeys(st)
              /\ CreateReview(c, ReviewBody(st, r))
              /\ last'.status = 201 )
            => rewards' = createReview_RewardsOf(s, session[c].userId)
       /\ redemptions' # redemptions
            => LET row == redemptions'[Len(redemptions')]
                   other == redemptionRowOf(
                              s, insertRedemptionSchema(
                                   [points |-> row.points], row.userId,
                                   row.partnerId), row.code)
               IN /\ redemptionNotNull(other)
                  /\ other.status = row.status
                  /\ rewards' = createRedemption_RewardsOf(s, row)
       /\ \A id \in 1..Len(referrals), status \in ReferralStatuses :
            UpdateReferralStatus(id, status)
            => rewards' = updateReferralStatus_RewardsOf(s, id, status)]_vars
==========================================================================
